---- MODULE Spec2Model ----
(***************************************************************************)
(* A model of the Vue single-page application template: the auth store,    *)
(* the API client it calls, the router's table and beforeEach guard, the   *)
(* cart store, the useFetch and useDebounce composables, the login form,   *)
(* the header's logout and the UI store.                                   *)
(*                                                                         *)
(* Strings that the code takes apart are modelled by their parts: a token  *)
(* is the sequence of its "."-separated segments (String.split(".")), so   *)
(* the empty string is <<"">> and null is the empty sequence.              *)
(***************************************************************************)
EXTENDS Naturals, Sequences, FiniteSets

VARIABLES
  \* ---- auth store (src/src/stores/auth.ts) and browser local storage
  user,          \* ref<User | null>
  token,         \* ref<string | null>
  isLoading,     \* ref(false)
  localStorage,  \* the 'access_token' entry of local storage, Null when absent
  loginCalls,    \* login() calls suspended at `await api.post(...)`
  authLast,      \* the store operation that ran last, and what it saw
  sent,          \* the last request the API client sent for a caller other than login()
  \* ---- router (src/src/router/index.ts)
  currentRoute,  \* router.currentRoute
  nav,           \* the pending navigation
  documentTitle, \* document.title
  enteredAuthed, \* whether the guard that admitted currentRoute saw an authenticated store
  \* ---- cart store (src/unnamed/part_003)
  items,         \* ref<CartItem[]>
  cartLast,      \* the cart action that ran last, and the id it was given
  \* ---- useFetch (src/unnamed/part_005)
  data,          \* ref<T | null>
  error,         \* ref<Error | null>
  fetchLoading,  \* useFetch's isLoading
  controller,    \* let controller: AbortController | null
  calls,         \* every execute() call of the instance, in call order
  disposed,      \* whether the scope that owns the instance has been disposed
  \* ---- useDebounce (src/unnamed/part_005)
  source,        \* the source ref
  debounced,     \* the ref useDebounce returns
  timeout,       \* let timeout: the handle of the last setTimeout, 0 before the first
  timers,        \* every timer the instance has armed, by handle
  scopeActive,   \* whether the effect scope that owns the watcher is still active
  sinceChange,   \* time since the source last changed, up to Delay
  \* ---- LoginForm.vue and AppHeader.vue
  email,         \* ref(""), as the sequence of its characters
  password,      \* ref(""), as the sequence of its characters
  formError,     \* error: ref<string | null>
  formLast,      \* what the form or the header did last
  navOrigin,     \* who started the pending navigation
  \* ---- UI store (src/src/stores/ui.ts)
  sidebarOpen,   \* ref(true)
  theme,         \* ref<"light" | "dark">("light")
  uiTrail,       \* the last two calls of the store's actions, each with the state it found
  \* ---- BaseModal (src/src/components/ui/BaseModal.vue)
  modalMounted,  \* whether the modal is mounted
  listening,     \* whether handleKeydown is a keydown listener of the document
  slotButtons,   \* the buttons of the slots in document order: TRUE enabled, FALSE disabled
  activeElement, \* document.activeElement: 0 outside the modal, k the k-th match inside
  modalLast      \* the last event and what the modal did on it

authVars   == <<user, token, isLoading, localStorage, loginCalls, authLast>>
routerVars == <<currentRoute, nav, documentTitle, enteredAuthed>>
cartVars   == <<items, cartLast>>
fetchVars  == <<data, error, fetchLoading, controller, calls, disposed>>
apiVars    == <<sent>>
debounceVars == <<source, debounced, timeout, timers, scopeActive, sinceChange>>
formVars   == <<email, password, formError, formLast, navOrigin>>
uiVars     == <<sidebarOpen, theme, uiTrail>>
modalVars  == <<modalMounted, listening, slotButtons, activeElement, modalLast>>
vars       == <<authVars, routerVars, cartVars, fetchVars, apiVars, debounceVars, formVars, uiVars, modalVars>>

(***************************************************************************)
(* Bounds of the model.                                                    *)
(***************************************************************************)
MaxLoginCalls == 2   \* login() calls in flight at once
MaxQuantity   == 3   \* addItem stops raising a line's quantity here
MaxCalls      == 3   \* execute() calls of one useFetch instance
MaxRedirects  == 3   \* a navigation's redirect count saturates here
MaxTimers     == 3   \* timers one useDebounce instance arms
MaxSlotButtons == 2  \* buttons in the slots of a modal

(***************************************************************************)
(* Values.                                                                 *)
(***************************************************************************)
Null     == <<>>              \* null / undefined / an absent storage entry
NoUser   == "null"            \* user.value = null
Users    == {"alice", "bob"}  \* user profiles, by name

EmptyString == <<"">>
AliceJwt    == <<"h", "alice64", "s">>
BobJwt      == <<"h", "bob64", "s">>

\* What local storage may hold under 'access_token' when the store is created.
StoredTokens ==
  { Null, EmptyString, <<"opaque">>, <<"h", "", "s">>, <<"h", "@@", "s">>,
    <<"h", "bnVsbA", "s">>, AliceJwt }

\* LoginResponse.token: string
ResponseTokens == { EmptyString, AliceJwt, BobJwt }

\* JavaScript truthiness of a string | null
Truthy(s) == s # Null /\ s # EmptyString

\* JSON.parse(atob(payload)) followed by the reads decoded.id, decoded.name, ...
\* "@@" is not base64 (atob throws); "bnVsbA" is base64 of `null` (decoded.id throws).
DecodePayload(payload) ==
  CASE payload = "alice64" -> [throws |-> FALSE, user |-> "alice"]
    [] payload = "bob64"   -> [throws |-> FALSE, user |-> "bob"]
    [] OTHER               -> [throws |-> TRUE, user |-> NoUser]

(***************************************************************************)
(* Auth store.                                                             *)
(***************************************************************************)
isAuthenticatedNotNull == token # Null

\* const isAuthenticated = computed(() => !!token.value)
isAuthenticated == Truthy(token)

\* logout(): the three fields it clears
LogoutKeepsStorage(st) == [st EXCEPT !.user = NoUser, !.token = Null]

logout(st) == [st EXCEPT !.user = NoUser, !.token = Null, !.localStorage = Null]

\* loadStoredUser(), run once when the store is set up
loadStoredUser(st) ==
  LET stored == st.localStorage IN
  IF ~Truthy(stored) THEN st
  ELSE LET payload == IF Len(stored) >= 2 THEN stored[2] ELSE "" IN
       IF payload = "" THEN st
       ELSE IF DecodePayload(payload).throws THEN logout(st)
            ELSE [st EXCEPT !.user = DecodePayload(payload).user]

\* The store's setup function, for a given content of local storage
SetupStore(stored) ==
  loadStoredUser([user |-> NoUser, token |-> stored, localStorage |-> stored])

\* ApiClient.request: the Authorization header of a request issued now
AuthorizationHeader ==
  IF Truthy(localStorage) THEN [present |-> TRUE, bearer |-> localStorage]
  ELSE [present |-> FALSE, bearer |-> Null]

\* The store's fields that login() and logout() write, and the storage entry
Fields == [user |-> user, token |-> token, localStorage |-> localStorage]

NoResponse == [user |-> NoUser, token |-> Null]

\* catch (error) { console.error(...); throw error; }
LoginRethrows == TRUE

\* api.get, api.post, api.put, api.delete: none of them passes options.headers
Methods == {"GET", "POST", "PUT", "DELETE"}

NoHeader == [present |-> FALSE, bearer |-> Null]

InitApi == sent = [method |-> "none", authorization |-> NoHeader, seq |-> 0]

\* request(path, options), up to its fetch: seq tells one request from the next
ApiRequest ==
  \E m \in Methods :
    sent' = [method |-> m, authorization |-> AuthorizationHeader, seq |-> 1 - sent.seq]

RemoveAt(s, i) == SubSeq(s, 1, i - 1) \o SubSeq(s, i + 1, Len(s))

InitAuth ==
  \E stored \in StoredTokens :
    /\ user = SetupStore(stored).user
    /\ token = SetupStore(stored).token
    /\ localStorage = SetupStore(stored).localStorage
    /\ isLoading = FALSE
    /\ loginCalls = <<>>
    /\ authLast = [op |-> "setup", thrown |-> FALSE,
                   resp |-> NoResponse]

\* login(), up to its await: isLoading.value = true; api.post("/auth/login", ...).
\* caller tells a call of the mounted login form ("form"), of a login form that has
\* been unmounted since ("gone") and of any other code ("app").
LoginStartBy(caller) ==
  /\ Len(loginCalls) < MaxLoginCalls
  /\ isLoading' = TRUE
  /\ loginCalls' = Append(loginCalls, [authorization |-> AuthorizationHeader,
                                       caller |-> caller])
  /\ authLast' = [op |-> "loginStart", thrown |-> FALSE, resp |-> NoResponse]
  /\ UNCHANGED <<user, token, localStorage>>

LoginStart == LoginStartBy("app")

LoginStoreTokenOnly(resp) ==
  /\ user' = resp.user
  /\ token' = resp.token
  /\ UNCHANGED localStorage

\* What a resumed login() stores from a 2xx response
LoginStore(resp) ==
  /\ user' = resp.user
  /\ token' = resp.token
  /\ localStorage' = resp.token

\* login() resumed with a 2xx response: the try block, then finally
LoginSucceedAt(i, u, t) ==
  /\ LoginStore([user |-> u, token |-> t])
  /\ isLoading' = FALSE
  /\ loginCalls' = RemoveAt(loginCalls, i)
  /\ authLast' = [op |-> "loginOk", thrown |-> FALSE,
                  resp |-> [user |-> u, token |-> t]]

LoginSucceed ==
  \E i \in 1..Len(loginCalls), u \in Users, t \in ResponseTokens :
    LoginSucceedAt(i, u, t)

\* What a login() whose request failed does to the store: catch, then finally
LoginFailureClears ==
  /\ user' = NoUser
  /\ token' = Null
  /\ localStorage' = Null
  /\ isLoading' = FALSE

LoginFailure ==
  /\ isLoading' = FALSE
  /\ UNCHANGED <<user, token, localStorage>>

\* login() resumed with a rejection (network error, or request() threw on !response.ok):
\* console.error, throw error, finally.
LoginFailAt(i) ==
  /\ LoginFailure
  /\ loginCalls' = RemoveAt(loginCalls, i)
  /\ authLast' = [op |-> "loginFailed", thrown |-> LoginRethrows,
                  resp |-> NoResponse]

LoginFail == \E i \in 1..Len(loginCalls) : LoginFailAt(i)

Logout ==
  LET st == logout(Fields) IN
  /\ user' = st.user
  /\ token' = st.token
  /\ localStorage' = st.localStorage
  /\ authLast' = [op |-> "logout", thrown |-> FALSE, resp |-> NoResponse]
  /\ UNCHANGED <<isLoading, loginCalls>>

(***************************************************************************)
(* Router.  A URL string is the sequence of its pieces: the path, then     *)
(* "?", the query key, "=" and the pieces of the value.  A location is a   *)
(* path and at most one query parameter.                                   *)
(***************************************************************************)
NoQuery == [key |-> "", val |-> <<>>]

Location(path, query) == [path |-> path, query |-> query]

\* to.fullPath
FullPath(loc) ==
  IF loc.query = NoQuery THEN <<loc.path>>
  ELSE <<loc.path, "?", loc.query.key, "=">> \o loc.query.val

\* The matcher over the route table: the name of the record a path resolves to
RouteName(path) ==
  CASE path = "/"          -> "home"
    [] path = "/dashboard" -> "dashboard"
    [] path = "/settings"  -> "settings"
    [] path = "/login"     -> "login"
    [] OTHER               -> "not-found"

\* The route named `name`, as { name: ... } resolves it
PathOf(name) ==
  CASE name = "home"      -> "/"
    [] name = "dashboard" -> "/dashboard"
    [] name = "settings"  -> "/settings"
    [] name = "login"     -> "/login"

\* meta.requiresAuth of the routes table
RequiresAuth(name) == name \in {"dashboard", "settings"}

\* meta.title of the routes table
Title(name) ==
  CASE name = "home"      -> "Home"
    [] name = "dashboard" -> "Dashboard"
    [] name = "settings"  -> "Settings"
    [] name = "login"     -> "Login"
    [] OTHER              -> "Not Found"

Allow(to)      == [allow |-> TRUE, to |-> to]
RedirectTo(to) == [allow |-> FALSE, to |-> to]

beforeEachPlainLogin(to, authed) ==
  IF RequiresAuth(RouteName(to.path)) /\ ~authed
  THEN RedirectTo(Location(PathOf("login"), NoQuery))
  ELSE IF RouteName(to.path) = "login" /\ authed
       THEN RedirectTo(Location(PathOf("dashboard"), NoQuery))
       ELSE Allow(to)

beforeEachNoLoginRule(to, authed) ==
  IF RequiresAuth(RouteName(to.path)) /\ ~authed
  THEN RedirectTo(Location(PathOf("login"), [key |-> "redirect", val |-> FullPath(to)]))
  ELSE Allow(to)

beforeEachBlocksNotFound(to, authed) ==
  IF RequiresAuth(RouteName(to.path)) /\ ~authed
  THEN RedirectTo(Location(PathOf("login"), [key |-> "redirect", val |-> FullPath(to)]))
  ELSE IF RouteName(to.path) = "login" /\ authed
       THEN RedirectTo(Location(PathOf("dashboard"), NoQuery))
       ELSE IF RouteName(to.path) = "not-found" /\ ~authed
            THEN RedirectTo(Location(PathOf("login"), NoQuery))
            ELSE Allow(to)

beforeEachLoginAlwaysBounces(to, authed) ==
  IF RequiresAuth(RouteName(to.path)) /\ ~authed
  THEN RedirectTo(Location(PathOf("login"), [key |-> "redirect", val |-> FullPath(to)]))
  ELSE IF RouteName(to.path) = "login"
       THEN RedirectTo(Location(PathOf("dashboard"), NoQuery))
       ELSE Allow(to)

\* router.beforeEach((to) => ...): what the guard returns
beforeEach(to, authed) ==
  IF RequiresAuth(RouteName(to.path)) /\ ~authed
  THEN RedirectTo(Location(PathOf("login"), [key |-> "redirect", val |-> FullPath(to)]))
  ELSE IF RouteName(to.path) = "login" /\ authed
       THEN RedirectTo(Location(PathOf("dashboard"), NoQuery))
       ELSE Allow(to)

\* Values a 'redirect' query parameter takes in a URL the user opens
RedirectValues ==
  { <<"/dashboard">>, <<"/settings", "?", "tab", "=", "1">>, <<"https://evil.example">> }

\* The locations a user opens or a link pushes
UserLocations ==
  { Location(p, NoQuery) : p \in {"/", "/dashboard", "/settings", "/login", "/missing"} }
    \cup { Location("/settings", [key |-> "tab", val |-> <<"1">>]) }
    \cup { Location("/login", [key |-> "redirect", val |-> v]) : v \in RedirectValues }

\* START_LOCATION
StartLocation == Location("/", NoQuery)

\* No location: the guard has not run on the pending navigation
NoLocation == Location("", NoQuery)

\* A navigation to `to` on which no guard has run yet.  guarded and authAtGuard record
\* the location the guard last ran on and the isAuthenticated it read.
NewNavigation(to) ==
  [stage |-> "guard", to |-> to, redirects |-> 0, guarded |-> NoLocation,
   authAtGuard |-> FALSE]

Saturate(n) == IF n < MaxRedirects THEN n + 1 ELSE MaxRedirects

\* The app starts with the navigation to the URL the browser loaded pending
InitRouter ==
  /\ currentRoute = StartLocation
  /\ \E to \in UserLocations : nav = NewNavigation(to)
  /\ documentTitle = ""
  /\ enteredAuthed = FALSE

\* router.push(to), a RouterLink, or a URL typed: a new navigation replaces the pending one
Navigate ==
  \E to \in UserLocations :
    /\ nav' = NewNavigation(to)
    /\ UNCHANGED <<currentRoute, documentTitle, enteredAuthed>>

\* The beforeEach guard runs on the pending navigation; a redirect is a new
\* navigation to the location returned, which the guard sees next
NavGuard ==
  /\ nav.stage = "guard"
  /\ documentTitle' = Title(RouteName(nav.to.path))
  /\ LET r == beforeEach(nav.to, isAuthenticated) IN
       nav' = IF r.allow
              THEN [nav EXCEPT !.stage = "load", !.guarded = nav.to,
                               !.authAtGuard = isAuthenticated]
              ELSE [nav EXCEPT !.to = r.to, !.redirects = Saturate(nav.redirects),
                               !.guarded = nav.to, !.authAtGuard = isAuthenticated]
  /\ UNCHANGED <<currentRoute, enteredAuthed>>

\* The lazily imported component has loaded: the navigation is confirmed
NavCommit ==
  /\ nav.stage = "load"
  /\ currentRoute' = nav.to
  /\ enteredAuthed' = nav.authAtGuard
  /\ nav' = [nav EXCEPT !.stage = "done"]
  /\ UNCHANGED documentTitle

(***************************************************************************)
(* Cart store.                                                             *)
(***************************************************************************)
ItemIds    == {"a", "b", "c"}
ItemNames  == {"tea", "mug"}
ItemPrices == {2, 5}

\* items.value.find((i) => i.id === item.id): the index of the first such line, 0 for none
FindIndex(its, id) ==
  IF \E k \in 1..Len(its) : its[k].id = id
  THEN CHOOSE k \in 1..Len(its) :
         /\ its[k].id = id
         /\ \A j \in 1..(k - 1) : its[j].id # id
  ELSE 0

addItemAlwaysPushes(its, item) ==
  Append(its, [id |-> item.id, name |-> item.name, price |-> item.price, quantity |-> 1])

addItemReplacesLine(its, item) ==
  LET k == FindIndex(its, item.id) IN
  IF k # 0
  THEN [its EXCEPT ![k] = [id |-> item.id, name |-> item.name, price |-> item.price,
                           quantity |-> its[k].quantity + 1]]
  ELSE Append(its, [id |-> item.id, name |-> item.name, price |-> item.price, quantity |-> 1])

\* addItem(item)
addItem(its, item) ==
  LET k == FindIndex(its, item.id) IN
  IF k # 0
  THEN [its EXCEPT ![k].quantity = its[k].quantity + 1]
  ELSE Append(its, [id |-> item.id, name |-> item.name, price |-> item.price, quantity |-> 1])

RECURSIVE Filter(_, _)
\* items.value.filter((item) => item.id !== id)
Filter(its, id) ==
  IF its = <<>> THEN <<>>
  ELSE IF Head(its).id # id THEN <<Head(its)>> \o Filter(Tail(its), id)
       ELSE Filter(Tail(its), id)

removeItemDecrements(its, id) ==
  LET k == FindIndex(its, id) IN
  IF k # 0 /\ its[k].quantity > 1
  THEN [its EXCEPT ![k].quantity = its[k].quantity - 1]
  ELSE Filter(its, id)

\* removeItem(id)
removeItem(its, id) == Filter(its, id)

RECURSIVE SumQuantity(_, _)
\* items.value.reduce((sum, item) => sum + item.quantity, 0)
SumQuantity(its, sum) ==
  IF its = <<>> THEN sum ELSE SumQuantity(Tail(its), sum + Head(its).quantity)

RECURSIVE SumPrice(_, _)
\* items.value.reduce((sum, item) => sum + item.price * item.quantity, 0)
SumPrice(its, sum) ==
  IF its = <<>> THEN sum
  ELSE SumPrice(Tail(its), sum + Head(its).price * Head(its).quantity)

totalItems == SumQuantity(items, 0)
totalPrice == SumPrice(items, 0)

InitCart ==
  /\ items = <<>>
  /\ cartLast = [op |-> "none", id |-> ""]

\* The model stops raising a quantity at MaxQuantity
AddItem ==
  \E id \in ItemIds, name \in ItemNames, price \in ItemPrices :
    /\ \A k \in 1..Len(items) : items[k].id = id => items[k].quantity < MaxQuantity
    /\ items' = addItem(items, [id |-> id, name |-> name, price |-> price])
    /\ cartLast' = [op |-> "addItem", id |-> id]

RemoveItem ==
  \E id \in ItemIds :
    /\ items' = removeItem(items, id)
    /\ cartLast' = [op |-> "removeItem", id |-> id]

ClearCart ==
  /\ items' = <<>>
  /\ cartLast' = [op |-> "clearCart", id |-> ""]

(***************************************************************************)
(* useFetch with abort.  calls[i] is the i-th execute() call: the await it *)
(* is suspended at ("fetch": await fetch(...), "json": await               *)
(* response.json(), "done": returned) and whether the signal of its        *)
(* AbortController has been aborted.  controller is the index of the call  *)
(* whose AbortController the variable holds, 0 for null.                   *)
(***************************************************************************)
NoData  == "null"
NoError == "null"
Payloads == {"json1", "json2"}
Statuses == {200, 404, 500}

\* response.ok
Ok(status) == status >= 200 /\ status <= 299

\* new Error(`HTTP ${response.status}`)
HttpError(status) ==
  CASE status = 404 -> "HTTP 404"
    [] status = 500 -> "HTTP 500"
    [] OTHER        -> "HTTP"

abortKeepsRequest(cs, ctrl) == cs

\* controller?.abort(): the signal of the controller held, if any, is aborted
abort(cs, ctrl) ==
  IF ctrl = 0 THEN cs ELSE [cs EXCEPT ![ctrl].aborted = TRUE]

InFlight(c) == c.stage # "done"

\* What an await of execute() threw: the exceptions of the try block
AbortError   == "AbortError"
NetworkError == "TypeError: Failed to fetch"
ParseError   == "SyntaxError"

CatchRecordsAbort(e, current) == [error |-> e, threw |-> FALSE]
CatchSwallowsAll(e, current)  == [error |-> current, threw |-> FALSE]

\* catch (e) { if (AbortError) return; error.value = e instanceof Error ? e : ... }:
\* the new value of error, and whether execute() rethrows
CatchBlock(e, current) ==
  IF e = AbortError THEN [error |-> current, threw |-> FALSE]
  ELSE [error |-> e, threw |-> FALSE]

\* A call that has just been made: suspended at await fetch(...), nothing settled
NewCall == [stage |-> "fetch", aborted |-> FALSE, settled |-> "pending", threw |-> FALSE]

InitFetch ==
  /\ data = NoData
  /\ error = NoError
  /\ fetchLoading = FALSE
  /\ controller = 0
  /\ calls = <<>>
  /\ disposed = FALSE

\* execute(), up to its first await
Execute ==
  /\ Len(calls) < MaxCalls
  /\ calls' = Append(abort(calls, controller), NewCall)
  /\ controller' = Len(calls) + 1
  /\ fetchLoading' = TRUE
  /\ error' = NoError
  /\ UNCHANGED <<data, disposed>>

\* execute() of the useFetch without abort (src/src/composables/useFetch.ts), up to its
\* first await: it has no AbortController, earlier calls go on
PlainExecute ==
  /\ Len(calls) < MaxCalls
  /\ calls' = Append(calls, NewCall)
  /\ fetchLoading' = TRUE
  /\ error' = NoError
  /\ UNCHANGED <<data, controller, disposed>>

\* abort(), called by the component
Abort ==
  /\ calls' = abort(calls, controller)
  /\ controller' = 0
  /\ UNCHANGED <<data, error, fetchLoading, disposed>>

\* onScopeDispose(abort): the owning scope is disposed
Dispose ==
  /\ ~disposed
  /\ disposed' = TRUE
  /\ calls' = abort(calls, controller)
  /\ controller' = 0
  /\ UNCHANGED <<data, error, fetchLoading>>

\* finally { isLoading.value = false }, and call i returns; settled is what its try
\* block ended with ("ok" or the exception), threw whether execute() rethrew it
Finally(i, settled, threw) ==
  /\ fetchLoading' = FALSE
  /\ calls' = [calls EXCEPT ![i].stage = "done", ![i].settled = settled,
                            ![i].threw = threw]
  /\ UNCHANGED <<controller, disposed>>

\* The try block of call i throws e: the catch block, then finally
Throws(i, e) ==
  /\ error' = CatchBlock(e, error).error
  /\ Finally(i, e, CatchBlock(e, error).threw)
  /\ UNCHANGED data

\* fetch() resolves with a response: a non-2xx status throws into the catch block
FetchResponds ==
  \E i \in 1..Len(calls), status \in Statuses :
    /\ calls[i].stage = "fetch" /\ ~calls[i].aborted
    /\ IF Ok(status)
       THEN /\ calls' = [calls EXCEPT ![i].stage = "json"]
            /\ UNCHANGED <<data, error, fetchLoading, controller, disposed>>
       ELSE Throws(i, HttpError(status))

\* fetch() rejects because the network failed
FetchRejects ==
  \E i \in 1..Len(calls) :
    /\ calls[i].stage = "fetch" /\ ~calls[i].aborted
    /\ Throws(i, NetworkError)

\* The await of an aborted call rejects with an AbortError: catch returns, finally runs
AbortRejects ==
  \E i \in 1..Len(calls) :
    /\ InFlight(calls[i]) /\ calls[i].aborted
    /\ Throws(i, AbortError)

\* response.json() resolves
JsonResolves ==
  \E i \in 1..Len(calls), v \in Payloads :
    /\ calls[i].stage = "json" /\ ~calls[i].aborted
    /\ data' = v
    /\ Finally(i, "ok", FALSE)
    /\ UNCHANGED error

\* response.json() rejects: the body is not JSON
JsonRejects ==
  \E i \in 1..Len(calls) :
    /\ calls[i].stage = "json" /\ ~calls[i].aborted
    /\ Throws(i, ParseError)

(***************************************************************************)
(* useDebounce.  Time is counted in units of which the delay takes Delay.  *)
(* timers[h] is the timer with handle h: its state ("pending", "cleared"   *)
(* by clearTimeout, "fired"), the value its callback publishes and the     *)
(* time left before it is due.  A change of the source stands for one tick *)
(* in which the source ends at a new value: the watcher's callback runs    *)
(* before any timer can, with the value the source has then.               *)
(***************************************************************************)
Values == {"a", "b", "c"}

\* delay, in units of time
Delay == 2

IsPending(t) == t.state = "pending"

clearTimeoutNoop(ts, h) == ts

\* clearTimeout(h): nothing for undefined, or for a timer that is no longer pending
clearTimeout(ts, h) ==
  IF h = 0 \/ ~IsPending(ts[h]) THEN ts
  ELSE [ts EXCEPT ![h].state = "cleared", ![h].remaining = 0]

setTimeoutImmediate(ts, v, d) ==
  Append(ts, [state |-> "pending", value |-> v, remaining |-> 0])

\* setTimeout(() => { debounced.value = v }, d): its handle is the new length
setTimeout(ts, v, d) ==
  Append(ts, [state |-> "pending", value |-> v, remaining |-> d])

\* watch(source, (newValue) => { clearTimeout(timeout); timeout = setTimeout(...) })
watchCallback(ts, h, newValue) == setTimeout(clearTimeout(ts, h), newValue, Delay)

\* useDebounce(source, delay) as it returns
InitDebounce ==
  /\ source \in Values
  /\ debounced = source
  /\ timeout = 0
  /\ timers = <<>>
  /\ scopeActive = TRUE
  /\ sinceChange = Delay

DebounceAtStart ==
  /\ source = "a"
  /\ debounced = "a"
  /\ timeout = 0
  /\ timers = <<>>
  /\ scopeActive = TRUE
  /\ sinceChange = Delay

\* source.value = v, and the watcher's callback when its scope is active
SetSource ==
  \E v \in Values \ {source} :
    /\ Len(timers) < MaxTimers
    /\ source' = v
    /\ sinceChange' = 0
    /\ IF scopeActive
       THEN /\ timers' = watchCallback(timers, timeout, v)
            /\ timeout' = Len(timers')
       ELSE UNCHANGED <<timers, timeout>>
    /\ UNCHANGED <<debounced, scopeActive>>

\* One unit of time passes; a timer that is due runs before more time passes
Tick ==
  /\ \A h \in 1..Len(timers) : IsPending(timers[h]) => timers[h].remaining > 0
  /\ sinceChange < Delay \/ \E h \in 1..Len(timers) : IsPending(timers[h])
  /\ timers' = [h \in 1..Len(timers) |->
                  IF IsPending(timers[h])
                  THEN [timers[h] EXCEPT !.remaining = @ - 1]
                  ELSE timers[h]]
  /\ sinceChange' = IF sinceChange < Delay THEN sinceChange + 1 ELSE Delay
  /\ UNCHANGED <<source, debounced, timeout, scopeActive>>

\* The callback of a timer that is due: debounced.value = newValue
TimerFires ==
  \E h \in 1..Len(timers) :
    /\ IsPending(timers[h])
    /\ timers[h].remaining = 0
    /\ debounced' = timers[h].value
    /\ timers' = [timers EXCEPT ![h].state = "fired"]
    /\ UNCHANGED <<source, timeout, scopeActive, sinceChange>>

\* The owning scope is disposed: the watcher stops, onScopeDispose's callback runs
ScopeDispose ==
  /\ scopeActive
  /\ scopeActive' = FALSE
  /\ timers' = clearTimeout(timers, timeout)
  /\ UNCHANGED <<source, debounced, timeout, sinceChange>>

(***************************************************************************)
(* Login form and header.  email and password are sequences of characters. *)
(* The form is mounted while the current route is 'login'; its refs are    *)
(* created anew each time it is mounted.  A "&" among the pieces of a      *)
(* query value separates a second occurrence of the parameter in the URL.  *)
(***************************************************************************)
Whitespace == {" ", "\t", "\n"}

\* /^[^\s@]+@[^\s@]+\.[^\s@]+$/.test(e): i is the place of the "@", j of a "."
isValidEmail(e) ==
  \E i \in 1..Len(e), j \in 1..Len(e) :
    /\ 1 < i /\ i + 1 < j /\ j < Len(e)
    /\ e[i] = "@"
    /\ e[j] = "."
    /\ \A k \in (1..Len(e)) \ {i} : e[k] \notin Whitespace \cup {"@"}

isMinLength(value, min) == Len(value) >= min

Emails ==
  { <<>>, <<"a", "@", "b", ".", "c">>, <<"a", "@", "b">>,
    <<"a", " ", "@", "b", ".", "c">> }

Passwords ==
  { <<>>, <<"1", "2", "3", "4", "5">>, <<"1", "2", "3", "4", "5", "6">> }

\* emailError and passwordError: whether the computed is a message
emailError == email # <<>> /\ ~isValidEmail(email)

passwordError == password # <<>> /\ ~isMinLength(password, 6)

isFormValidEmailOnly == email # <<>> /\ ~emailError

isFormValid == email # <<>> /\ password # <<>> /\ ~emailError /\ ~passwordError

\* BaseButton: :disabled="disabled || loading", given :disabled="!isFormValid" and
\* :loading="authStore.isLoading"
ButtonDisabled == ~isFormValid \/ isLoading

NoMessage == "null"

InvalidCredentials == "Invalid email or password."

\* route.query[k]: undefined, a string, or an array when the URL repeats the parameter
QueryParam(loc, k) ==
  IF loc.query.key # k THEN [kind |-> "undefined", val |-> <<>>]
  ELSE IF \E n \in 1..Len(loc.query.val) : loc.query.val[n] = "&"
       THEN [kind |-> "array", val |-> loc.query.val]
       ELSE [kind |-> "string", val |-> loc.query.val]

\* The pieces of the model that begin with "/"
SlashPieces == {"/", "/dashboard", "/settings", "/login", "/missing"}

\* val.startsWith("/")
StartsWithSlash(val) == Len(val) > 0 /\ val[1] \in SlashPieces

FormTargetIgnoresRedirect(loc) == [throws |-> FALSE, target |-> <<"/dashboard">>]

\* redirect?.startsWith("/") ? redirect : "/dashboard"; an array has no startsWith
FormTarget(loc) ==
  LET redirect == QueryParam(loc, "redirect") IN
  IF redirect.kind = "array" THEN [throws |-> TRUE, target |-> <<>>]
  ELSE IF redirect.kind = "string" /\ StartsWithSlash(redirect.val)
       THEN [throws |-> FALSE, target |-> redirect.val]
       ELSE [throws |-> FALSE, target |-> <<"/dashboard">>]

\* router.resolve of a URL string
ResolveUrl(u) ==
  IF Len(u) >= 4 /\ u[2] = "?"
  THEN Location(u[1], [key |-> u[3], val |-> SubSeq(u, 5, Len(u))])
  ELSE Location(u[1], NoQuery)

FormMounted == RouteName(currentRoute.path) = "login"

FormAtStart ==
  /\ email = <<>>
  /\ password = <<>>
  /\ formError = NoMessage
  /\ formLast = "mount"
  /\ navOrigin = "user"

\* The URLs the browser loads the app at
EntryLocations ==
  { Location("/login", NoQuery), Location("/dashboard", NoQuery),
    Location("/settings", [key |-> "tab", val |-> <<"1">>]),
    Location("/login", [key |-> "redirect", val |-> <<"https://evil.example">>]),
    Location("/login", [key |-> "redirect", val |-> <<"/settings", "?", "tab", "=", "1">>]),
    Location("/login", [key |-> "redirect",
                        val |-> <<"/dashboard", "&", "redirect", "=", "/settings">>]) }

\* v-model="email"
SetEmail ==
  /\ FormMounted
  /\ \E e \in Emails \ {email} : email' = e
  /\ formLast' = "input"
  /\ UNCHANGED <<password, formError, navOrigin, authVars, routerVars>>

\* v-model="password"
SetPassword ==
  /\ FormMounted
  /\ \E p \in Passwords \ {password} : password' = p
  /\ formLast' = "input"
  /\ UNCHANGED <<email, formError, navOrigin, authVars, routerVars>>

\* handleSubmit(), up to its await
HandleSubmit ==
  /\ FormMounted
  /\ IF ~isFormValid
     THEN /\ formLast' = "ignored"
          /\ UNCHANGED <<email, password, formError, navOrigin, authVars, routerVars>>
     ELSE /\ formError' = NoMessage
          /\ LoginStartBy("form")
          /\ formLast' = "submitted"
          /\ UNCHANGED <<email, password, navOrigin, routerVars>>

ShowNothing(caller, message) == formError' = formError

\* error.value = ..., in the form the call was made from if it is still mounted
ShowError(caller, message) ==
  formError' = IF caller = "form" THEN message ELSE formError

\* The 2xx responses to the form's login request: a token, or the empty string
FormResponses ==
  { [user |-> "alice", token |-> AliceJwt], [user |-> "alice", token |-> EmptyString] }

\* handleSubmit() resumed after login() returned: route.query is read now
FormLoginSucceed ==
  \E i \in 1..Len(loginCalls), r \in FormResponses :
    /\ loginCalls[i].caller # "app"
    /\ LoginSucceedAt(i, r.user, r.token)
    /\ formLast' = "loginOk"
    /\ IF FormTarget(currentRoute).throws
       THEN /\ ShowError(loginCalls[i].caller, InvalidCredentials)
            /\ UNCHANGED <<navOrigin, routerVars>>
       ELSE /\ nav' = NewNavigation(ResolveUrl(FormTarget(currentRoute).target))
            /\ navOrigin' = "form"
            /\ UNCHANGED <<formError, currentRoute, documentTitle, enteredAuthed>>
    /\ UNCHANGED <<email, password>>

\* handleSubmit() resumed after login() threw: the catch block
FormLoginFail ==
  \E i \in 1..Len(loginCalls) :
    /\ loginCalls[i].caller # "app"
    /\ LoginFailAt(i)
    /\ ShowError(loginCalls[i].caller, InvalidCredentials)
    /\ formLast' = "loginFailed"
    /\ UNCHANGED <<email, password, navOrigin, routerVars>>

\* AppHeader's handleLogout(), behind v-if="isAuthenticated"
HandleLogout ==
  /\ isAuthenticated
  /\ Logout
  /\ nav' = NewNavigation(Location("/login", NoQuery))
  /\ navOrigin' = "logout"
  /\ formLast' = "logout"
  /\ UNCHANGED <<email, password, formError, currentRoute, documentTitle,
                 enteredAuthed>>

FormNavGuard == NavGuard /\ UNCHANGED <<authVars, formVars>>

\* The navigation is confirmed: the form is unmounted or mounted with the route
FormNavCommit ==
  /\ NavCommit
  /\ IF FormMounted # (RouteName(nav.to.path) = "login")
     THEN /\ email' = <<>>
          /\ password' = <<>>
          /\ formError' = NoMessage
          /\ formLast' = "mount"
          /\ loginCalls' = [k \in 1..Len(loginCalls) |->
                              [loginCalls[k] EXCEPT !.caller =
                                 IF @ = "form" THEN "gone" ELSE @]]
     ELSE UNCHANGED <<email, password, formError, formLast, loginCalls>>
  /\ UNCHANGED <<user, token, isLoading, localStorage, authLast, navOrigin>>

\* The app opened at a URL, nobody logged in
InitLogin ==
  /\ currentRoute = StartLocation
  /\ \E to \in EntryLocations : nav = NewNavigation(to)
  /\ documentTitle = ""
  /\ enteredAuthed = FALSE

(***************************************************************************)
(* UI store.  A state of the store is the record of its two refs.          *)
(***************************************************************************)
UiState == [sidebarOpen |-> sidebarOpen, theme |-> theme]

toggleSidebarCloses(st) == [st EXCEPT !.sidebarOpen = FALSE]

\* sidebarOpen.value = !sidebarOpen.value
toggleSidebar(st) == [st EXCEPT !.sidebarOpen = ~st.sidebarOpen]

toggleThemeToDark(st) == [st EXCEPT !.theme = "dark"]

\* theme.value = theme.value === "light" ? "dark" : "light"
toggleTheme(st) == [st EXCEPT !.theme = IF st.theme = "light" THEN "dark" ELSE "light"]

isDarkMode == theme = "dark"

\* The trail after a call of `op`: the call before it, then this one
Trail(op) ==
  (IF uiTrail = <<>> THEN <<>> ELSE <<uiTrail[Len(uiTrail)]>>)
    \o <<[op |-> op, found |-> UiState]>>

InitUi ==
  /\ sidebarOpen = TRUE
  /\ theme = "light"
  /\ uiTrail = <<>>

ToggleSidebar ==
  /\ sidebarOpen' = toggleSidebar(UiState).sidebarOpen
  /\ theme' = toggleSidebar(UiState).theme
  /\ uiTrail' = Trail("toggleSidebar")

ToggleTheme ==
  /\ sidebarOpen' = toggleTheme(UiState).sidebarOpen
  /\ theme' = toggleTheme(UiState).theme
  /\ uiTrail' = Trail("toggleTheme")

(***************************************************************************)
(* BaseModal.  The elements its selector matches are, in document order,   *)
(* the close button of the header and the buttons of the slots; the list   *)
(* holds TRUE for an element that can take focus and FALSE for a disabled  *)
(* button, which the selector matches all the same.  The modal is          *)
(* teleported to the end of the body: the default Tab order leaves it      *)
(* after its last element that can take focus and before its first.        *)
(***************************************************************************)
Keys == {"Escape", "Tab", "Enter"}

\* querySelectorAll('button, [href], input, ...') on the modal
Focusable(slot) == <<TRUE>> \o slot

\* el.focus(): nothing on a disabled button
Focus(el, active, focusable) == IF focusable[el] THEN el ELSE active

handleKeydownIgnoresEscape(key, shiftKey, active, focusable) ==
  [emits |-> 0, prevented |-> FALSE, focus |-> active]

\* handleKeydown(e): the 'close' events emitted, whether e.preventDefault() was called
\* and the element that has focus afterwards
handleKeydown(key, shiftKey, active, focusable) ==
  IF key = "Escape"
  THEN [emits |-> 1, prevented |-> FALSE, focus |-> active]
  ELSE IF key = "Tab"
       THEN IF shiftKey /\ active = 1
            THEN [emits |-> 0, prevented |-> TRUE,
                  focus |-> Focus(Len(focusable), active, focusable)]
            ELSE IF ~shiftKey /\ active = Len(focusable)
                 THEN [emits |-> 0, prevented |-> TRUE,
                       focus |-> Focus(1, active, focusable)]
                 ELSE [emits |-> 0, prevented |-> FALSE, focus |-> active]
       ELSE [emits |-> 0, prevented |-> FALSE, focus |-> active]

\* The elements of the modal that a Tab press can reach
Tabbable(focusable) == {k \in 1..Len(focusable) : focusable[k]}

Least(S) == CHOOSE k \in S : \A j \in S : k <= j

Greatest(S) == CHOOSE k \in S : \A j \in S : k >= j

\* Where the browser's default action of Tab and Shift+Tab moves focus from an
\* element of the modal
DefaultTab(shiftKey, active, focusable) ==
  LET after  == {k \in Tabbable(focusable) : k > active}
      before == {k \in Tabbable(focusable) : k < active}
  IN IF shiftKey THEN (IF before = {} THEN 0 ELSE Greatest(before))
     ELSE (IF after = {} THEN 0 ELSE Least(after))

Slots ==
  UNION { [1..n -> BOOLEAN] : n \in 0..MaxSlotButtons }

InitModal ==
  /\ modalMounted = FALSE
  /\ listening = FALSE
  /\ slotButtons = <<>>
  /\ activeElement = 0
  /\ modalLast = [event |-> "none", shiftKey |-> FALSE, emits |-> 0,
                  prevented |-> FALSE, seq |-> 0]

\* The modal is rendered: onMounted
MountModal ==
  /\ ~modalMounted
  /\ modalMounted' = TRUE
  /\ listening' = TRUE
  /\ \E slot \in Slots :
       /\ slotButtons' = slot
       /\ activeElement' = Focus(1, activeElement, Focusable(slot))
  /\ modalLast' = [event |-> "mount", shiftKey |-> FALSE, emits |-> 0,
                   prevented |-> FALSE, seq |-> 1 - modalLast.seq]

\* The modal is removed: onUnmounted; focus falls back to the body
UnmountModal ==
  /\ modalMounted
  /\ modalMounted' = FALSE
  /\ listening' = FALSE
  /\ slotButtons' = <<>>
  /\ activeElement' = 0
  /\ modalLast' = [event |-> "unmount", shiftKey |-> FALSE, emits |-> 0,
                   prevented |-> FALSE, seq |-> 1 - modalLast.seq]

\* A click puts focus on an element that can take it, inside or outside the modal
ClickFocus ==
  /\ \E el \in {0} \cup (IF modalMounted THEN Tabbable(Focusable(slotButtons)) ELSE {}) :
       /\ el # activeElement
       /\ activeElement' = el
  /\ modalLast' = [event |-> "click", shiftKey |-> FALSE, emits |-> 0,
                   prevented |-> FALSE, seq |-> 1 - modalLast.seq]
  /\ UNCHANGED <<modalMounted, listening, slotButtons>>

\* A keydown event reaches the document: the listener if registered, then the default
\* action of Tab unless prevented.  From outside the modal Tab may enter it.
KeyDown ==
  \E key \in Keys, shiftKey \in BOOLEAN :
    LET focusable == Focusable(slotButtons)
        r == IF listening
             THEN handleKeydown(key, shiftKey, activeElement, focusable)
             ELSE [emits |-> 0, prevented |-> FALSE, focus |-> activeElement]
    IN /\ modalLast' = [event |-> key, shiftKey |-> shiftKey, emits |-> r.emits,
                        prevented |-> r.prevented, seq |-> 1 - modalLast.seq]
       /\ IF key = "Tab" /\ ~r.prevented
          THEN IF activeElement = 0
               THEN activeElement' \in
                      {0} \cup (IF ~modalMounted THEN {}
                                ELSE IF shiftKey
                                     THEN {Greatest(Tabbable(focusable))}
                                     ELSE {Least(Tabbable(focusable))})
               ELSE activeElement' = DefaultTab(shiftKey, activeElement, focusable)
          ELSE activeElement' = r.focus
       /\ UNCHANGED <<modalMounted, listening, slotButtons>>

(***************************************************************************)
(* Specifications.                                                         *)
(***************************************************************************)
\* The router before the app is mounted: no navigation is pending
RouterAtStart ==
  /\ currentRoute = StartLocation
  /\ nav = [NewNavigation(StartLocation) EXCEPT !.stage = "done"]
  /\ documentTitle = ""
  /\ enteredAuthed = FALSE

\* The auth store before any component uses it, with empty local storage
AuthAtStart ==
  /\ user = SetupStore(Null).user
  /\ token = SetupStore(Null).token
  /\ localStorage = SetupStore(Null).localStorage
  /\ isLoading = FALSE
  /\ loginCalls = <<>>
  /\ authLast = [op |-> "setup", thrown |-> FALSE, resp |-> NoResponse]

Init == InitAuth /\ InitRouter /\ InitCart /\ InitFetch /\ InitApi /\ InitDebounce /\ FormAtStart /\ InitUi /\ InitModal

NotAuth   == <<routerVars, cartVars, fetchVars, apiVars, debounceVars, formVars, uiVars, modalVars>>
NotRouter == <<authVars, cartVars, fetchVars, apiVars, debounceVars, formVars, uiVars, modalVars>>
NotCart   == <<authVars, routerVars, fetchVars, apiVars, debounceVars, formVars, uiVars, modalVars>>
NotFetch  == <<authVars, routerVars, cartVars, apiVars, debounceVars, formVars, uiVars, modalVars>>
NotApi    == <<authVars, routerVars, cartVars, fetchVars, debounceVars, formVars, uiVars, modalVars>>
NotDebounce == <<authVars, routerVars, cartVars, fetchVars, apiVars, formVars, uiVars, modalVars>>
NotLogin  == <<cartVars, fetchVars, apiVars, debounceVars, uiVars, modalVars>>
NotUi     == <<authVars, routerVars, cartVars, fetchVars, apiVars, debounceVars, formVars, modalVars>>
NotModal  == <<authVars, routerVars, cartVars, fetchVars, apiVars, debounceVars, formVars, uiVars>>

NextAuth ==
  \/ LoginStart /\ UNCHANGED NotAuth
  \/ LoginSucceed /\ UNCHANGED NotAuth
  \/ LoginFail /\ UNCHANGED NotAuth
  \/ Logout /\ UNCHANGED NotAuth

NextRouter ==
  \/ Navigate /\ UNCHANGED NotRouter
  \/ NavGuard /\ UNCHANGED NotRouter
  \/ NavCommit /\ UNCHANGED NotRouter

NextCart ==
  \/ AddItem /\ UNCHANGED NotCart
  \/ RemoveItem /\ UNCHANGED NotCart
  \/ ClearCart /\ UNCHANGED NotCart

NextFetch ==
  \/ Execute /\ UNCHANGED NotFetch
  \/ Abort /\ UNCHANGED NotFetch
  \/ Dispose /\ UNCHANGED NotFetch
  \/ FetchResponds /\ UNCHANGED NotFetch
  \/ FetchRejects /\ UNCHANGED NotFetch
  \/ AbortRejects /\ UNCHANGED NotFetch
  \/ JsonResolves /\ UNCHANGED NotFetch
  \/ JsonRejects /\ UNCHANGED NotFetch

NextApi == ApiRequest /\ UNCHANGED NotApi

NextDebounce ==
  \/ SetSource /\ UNCHANGED NotDebounce
  \/ Tick /\ UNCHANGED NotDebounce
  \/ TimerFires /\ UNCHANGED NotDebounce
  \/ ScopeDispose /\ UNCHANGED NotDebounce

NextLogin ==
  \/ SetEmail /\ UNCHANGED NotLogin
  \/ SetPassword /\ UNCHANGED NotLogin
  \/ HandleSubmit /\ UNCHANGED NotLogin
  \/ FormLoginSucceed /\ UNCHANGED NotLogin
  \/ FormLoginFail /\ UNCHANGED NotLogin
  \/ HandleLogout /\ UNCHANGED NotLogin
  \/ FormNavGuard /\ UNCHANGED NotLogin
  \/ FormNavCommit /\ UNCHANGED NotLogin

NextUi ==
  \/ ToggleSidebar /\ UNCHANGED NotUi
  \/ ToggleTheme /\ UNCHANGED NotUi

NextModal ==
  \/ MountModal /\ UNCHANGED NotModal
  \/ UnmountModal /\ UNCHANGED NotModal
  \/ ClickFocus /\ UNCHANGED NotModal
  \/ KeyDown /\ UNCHANGED NotModal

\* The useFetch without abort: its catch block stores every exception
NextPlainFetch ==
  \/ PlainExecute /\ UNCHANGED NotFetch
  \/ FetchResponds /\ UNCHANGED NotFetch
  \/ FetchRejects /\ UNCHANGED NotFetch
  \/ JsonResolves /\ UNCHANGED NotFetch
  \/ JsonRejects /\ UNCHANGED NotFetch

Next ==
  \/ NextAuth \/ NextRouter \/ NextCart \/ NextFetch \/ NextApi \/ NextDebounce
  \/ NextLogin \/ NextUi \/ NextModal

Spec == Init /\ [][Next]_vars

\* The auth store alone
InitAuthOnly == InitAuth /\ RouterAtStart /\ InitCart /\ InitFetch /\ InitApi /\ DebounceAtStart /\ FormAtStart /\ InitUi /\ InitModal
SpecAuth == InitAuthOnly /\ [][NextAuth \/ NextApi]_vars

\* The router with the auth store its guard reads
InitApp == InitAuth /\ InitRouter /\ InitCart /\ InitFetch /\ InitApi /\ DebounceAtStart /\ FormAtStart /\ InitUi /\ InitModal
SpecApp == InitApp /\ [][NextAuth \/ NextRouter]_vars

\* The cart store alone
InitCartOnly == AuthAtStart /\ RouterAtStart /\ InitCart /\ InitFetch /\ InitApi /\ DebounceAtStart /\ FormAtStart /\ InitUi /\ InitModal
SpecCart == InitCartOnly /\ [][NextCart]_vars

\* One useFetch instance alone
InitFetchOnly == AuthAtStart /\ RouterAtStart /\ InitCart /\ InitFetch /\ InitApi /\ DebounceAtStart /\ FormAtStart /\ InitUi /\ InitModal
SpecFetch == InitFetchOnly /\ [][NextFetch]_vars

\* One useDebounce instance alone
InitDebounceOnly == AuthAtStart /\ RouterAtStart /\ InitCart /\ InitFetch /\ InitApi /\ InitDebounce /\ FormAtStart /\ InitUi /\ InitModal
SpecDebounce == InitDebounceOnly /\ [][NextDebounce]_vars

\* The same, where time passes and a timer that is due runs
SpecDebounceLive ==
  /\ InitDebounceOnly /\ [][NextDebounce]_vars
  /\ WF_vars(Tick /\ UNCHANGED NotDebounce)
  /\ WF_vars(TimerFires /\ UNCHANGED NotDebounce)

\* The login form and the header, with the store and the router they drive
InitLoginOnly == AuthAtStart /\ InitLogin /\ InitCart /\ InitFetch /\ InitApi /\ DebounceAtStart /\ FormAtStart /\ InitUi /\ InitModal
SpecLogin == InitLoginOnly /\ [][NextLogin]_vars

\* The same, where the router runs its guard and confirms the navigation
SpecLoginLive ==
  /\ InitLoginOnly /\ [][NextLogin]_vars
  /\ WF_vars(FormNavGuard /\ UNCHANGED NotLogin)
  /\ WF_vars(FormNavCommit /\ UNCHANGED NotLogin)

\* The two stores the header renders: the UI store and the auth store
InitHeaderOnly == InitAuth /\ RouterAtStart /\ InitCart /\ InitFetch /\ InitApi /\ DebounceAtStart /\ FormAtStart /\ InitUi /\ InitModal
SpecHeader == InitHeaderOnly /\ [][NextUi \/ NextAuth]_vars

\* The router with an auth store that nobody logs in to or out of
InitGuardOnly == InitAuth /\ InitRouter /\ InitCart /\ InitFetch /\ InitApi /\ DebounceAtStart /\ FormAtStart /\ InitUi /\ InitModal
SpecGuard == InitGuardOnly /\ [][NextRouter]_vars

\* The same, where the router runs its guard and confirms the navigation
SpecGuardLive ==
  /\ InitGuardOnly /\ [][NextRouter]_vars
  /\ WF_vars(NavGuard /\ UNCHANGED NotRouter)
  /\ WF_vars(NavCommit /\ UNCHANGED NotRouter)

\* One instance of the useFetch without abort
InitPlainFetchOnly == AuthAtStart /\ RouterAtStart /\ InitCart /\ InitFetch /\ InitApi /\ DebounceAtStart /\ FormAtStart /\ InitUi /\ InitModal
SpecPlainFetch == InitPlainFetchOnly /\ [][NextPlainFetch]_vars

\* One BaseModal alone
InitModalOnly == AuthAtStart /\ RouterAtStart /\ InitCart /\ InitFetch /\ InitApi /\ DebounceAtStart /\ FormAtStart /\ InitUi /\ InitModal
SpecModal == InitModalOnly /\ [][NextModal]_vars

(***************************************************************************)
(* Properties.                                                             *)
(***************************************************************************)
GuardRan      == nav.guarded # NoLocation
GuardedName   == RouteName(nav.guarded.path)
CurrentName   == RouteName(currentRoute.path)
ProtectedNames == {"dashboard", "settings"}

\* C1: whenever the beforeEach guard has run on a navigation to a route with
\* meta.requiresAuth (dashboard, settings) and read an unauthenticated store, the
\* navigation has been redirected to 'login' with query.redirect equal to the target's
\* fullPath; and the current route is never a protected route that was admitted by a
\* guard that read an unauthenticated store.
C1_ProtectedRedirectsToLogin ==
  /\ (GuardRan /\ GuardedName \in ProtectedNames /\ ~nav.authAtGuard)
       => /\ nav.stage = "guard"
          /\ nav.to.path = "/login"
          /\ nav.to.query.key = "redirect"
          /\ nav.to.query.val = FullPath(nav.guarded)
  /\ CurrentName \in ProtectedNames => enteredAuthed

\* An unauthenticated visit of /settings?tab=1 has just been redirected to the login route
C1_Witness ==
  /\ nav.stage = "guard"
  /\ nav.guarded = Location("/settings", [key |-> "tab", val |-> <<"1">>])
  /\ ~nav.authAtGuard
  /\ nav.to.path = "/login"
  /\ nav.to.query.val = <<"/settings", "?", "tab", "=", "1">>

\* C2: whenever the guard has run on a navigation to 'login' and read an authenticated
\* store, the navigation has been redirected to 'dashboard'; and the current route is
\* never 'login' admitted by a guard that read an authenticated store.
C2_LoginRedirectsToDashboard ==
  /\ (GuardRan /\ GuardedName = "login" /\ nav.authAtGuard)
       => /\ nav.stage = "guard"
          /\ nav.to = Location("/dashboard", NoQuery)
  /\ CurrentName = "login" => ~enteredAuthed

\* An authenticated visit of /login?redirect=... has just been redirected to /dashboard
C2_Witness ==
  /\ nav.stage = "guard"
  /\ nav.guarded.path = "/login"
  /\ nav.guarded.query.key = "redirect"
  /\ nav.authAtGuard
  /\ nav.to = Location("/dashboard", NoQuery)

\* C3: in every case other than the two above the guard returns true: the navigation
\* goes on to the location it asked for, unchanged.
C3_OtherNavigationsAllowed ==
  (/\ GuardRan
   /\ ~(GuardedName \in ProtectedNames /\ ~nav.authAtGuard)
   /\ ~(GuardedName = "login" /\ nav.authAtGuard))
    => /\ nav.stage \in {"load", "done"}
       /\ nav.to = nav.guarded

\* The not-found route has been entered by an authenticated user
C3_Witness ==
  /\ nav.stage = "done"
  /\ CurrentName = "not-found"
  /\ currentRoute = nav.guarded
  /\ enteredAuthed

\* C4: isAuthenticated is true exactly when token holds a non-empty string; it is false
\* when token is null (and when token is the empty string).
C4_AuthenticatedIffToken ==
  /\ isAuthenticated <=> (token # Null /\ Len(token) >= 1 /\ token # <<"">>)
  /\ token = Null => ~isAuthenticated

\* The store holds the empty string as its token, after a login, and is not authenticated
C4_Witness ==
  /\ authLast.op = "loginOk"
  /\ token = EmptyString
  /\ ~isAuthenticated

\* C5: right after a login() whose request succeeded, user and token are those of the
\* response, the token is in local storage, isAuthenticated is true and isLoading false.
C5_LoginSuccessPostcondition ==
  authLast.op = "loginOk"
    => /\ user = authLast.resp.user
       /\ token = authLast.resp.token
       /\ localStorage = authLast.resp.token
       /\ isAuthenticated
       /\ ~isLoading

\* C6: right after logout(), user and token are null, local storage holds no
\* 'access_token' and isAuthenticated is false.
C6_LogoutClears ==
  authLast.op = "logout"
    => /\ user = NoUser
       /\ token = Null
       /\ localStorage = Null
       /\ ~isAuthenticated

\* logout() has run while a login() was in flight
C6_Witness ==
  /\ authLast.op = "logout"
  /\ Len(loginCalls) > 0
  /\ isLoading

LoginCallResumes == Len(loginCalls') < Len(loginCalls)
LoginCallStarts  == Len(loginCalls') > Len(loginCalls)

\* C7: a login() whose request fails rethrows, leaves user, token and the storage entry
\* as they were (its first half, up to the await, leaves them too) and sets isLoading
\* to false.
C7_LoginFailureLeavesState ==
  [][/\ (LoginCallResumes /\ authLast'.op = "loginFailed")
          => /\ authLast'.thrown
             /\ user' = user /\ token' = token /\ localStorage' = localStorage
             /\ ~isLoading'
     /\ LoginCallStarts
          => (user' = user /\ token' = token /\ localStorage' = localStorage)]_vars

\* A login() has failed in a store that was and stays authenticated
C7_Witness ==
  /\ authLast.op = "loginFailed"
  /\ authLast.thrown
  /\ token = AliceJwt
  /\ localStorage = AliceJwt
  /\ user = "alice"
  /\ ~isLoading

\* C8: every line of the cart has quantity >= 1 and no two lines share an id.
C8_CartLinesValid ==
  \A k \in 1..Len(items) :
    /\ items[k].quantity >= 1
    /\ \A j \in 1..Len(items) : j # k => items[j].id # items[k].id

\* A cart of three lines, one of them added more than once
C8_Witness ==
  /\ Len(items) = 3
  /\ \E k \in 1..Len(items) : items[k].quantity >= 2

\* C9: while a request of the instance is pending (not settled, not aborted),
\* isLoading is true.
C9_LoadingWhilePending ==
  \A i \in 1..Len(calls) :
    (InFlight(calls[i]) /\ ~calls[i].aborted) => fetchLoading

PendingCalls == { i \in 1..Len(calls) : InFlight(calls[i]) /\ ~calls[i].aborted }

\* C10: at most one request of the instance is in flight and not aborted, and it is
\* the one whose AbortController the instance holds; every earlier call still in
\* flight has been aborted.
C10_OnePendingRequest ==
  /\ Cardinality(PendingCalls) <= 1
  /\ \A i \in PendingCalls : controller = i /\ i = Len(calls)

\* Two calls are in flight: the earlier one aborted by the later execute()
C10_Witness ==
  \E i, j \in 1..Len(calls) :
    /\ i < j
    /\ InFlight(calls[i]) /\ calls[i].aborted
    /\ InFlight(calls[j]) /\ ~calls[j].aborted

CallSettles(i) == InFlight(calls[i]) /\ ~InFlight(calls'[i])

\* C11: when a call of execute() whose request was aborted (by abort(), by a newer
\* execute() or by scope disposal) returns, error and data are as they were and
\* nothing is thrown to the caller.
C11_AbortSwallowed ==
  [][\A i \in 1..Len(calls) :
       (i <= Len(calls') /\ CallSettles(i) /\ calls[i].aborted)
         => /\ error' = error
            /\ data' = data
            /\ ~calls'[i].threw
            /\ calls'[i].settled = "AbortError"]_vars

\* A call aborted by scope disposal has returned while data and error of earlier
\* calls are still shown
C11_Witness ==
  /\ disposed
  /\ \E i \in 1..Len(calls) :
       /\ calls[i].stage = "done" /\ calls[i].settled = "AbortError" /\ ~calls[i].threw
       /\ i = Len(calls)
  /\ data = "json1"
  /\ error = NoError

FailureErrors == {"HTTP 404", "HTTP 500", "TypeError: Failed to fetch", "SyntaxError"}

\* C12: when a call settles with a failure other than abort, it returns without
\* throwing, error is that failure ("HTTP <status>" for a non-2xx response),
\* isLoading is false, data is as it was and no further request is issued; and every
\* execute() sets error to null as it starts.
C12_FailureRecorded ==
  [][/\ \A i \in 1..Len(calls) :
          (i <= Len(calls') /\ CallSettles(i) /\ ~calls[i].aborted
             /\ calls'[i].settled # "ok")
            => /\ calls'[i].settled \in FailureErrors
               /\ (calls[i].stage = "json" <=> calls'[i].settled = "SyntaxError")
               /\ error' = calls'[i].settled
               /\ ~calls'[i].threw
               /\ ~fetchLoading'
               /\ data' = data
               /\ Len(calls') = Len(calls)
     /\ Len(calls') > Len(calls) => error' = NoError]_vars

\* A request has failed with HTTP 500 after an earlier one had delivered data
C12_Witness ==
  /\ Len(calls) >= 2
  /\ calls[Len(calls)].settled = "HTTP 500"
  /\ error = "HTTP 500"
  /\ data = "json2"
  /\ ~fetchLoading

\* The header a request must carry for a given content of local storage
ExpectedHeader(storage) ==
  IF storage # Null /\ storage # <<"">>
  THEN [present |-> TRUE, bearer |-> storage]
  ELSE [present |-> FALSE, bearer |-> Null]

\* The header of the request issued in this step, by login() or by another caller
RequestIssued(h) ==
  \/ sent' # sent /\ h = sent'.authorization
  \/ LoginCallStarts /\ h = loginCalls'[Len(loginCalls')].authorization

\* Every request carries 'Authorization: Bearer <t>' exactly when local storage holds
\* a non-empty 'access_token' t as the request is issued, and none otherwise; a request
\* issued right after logout() carries none.
HeaderMatchesStorage ==
  [][\A h \in {sent'.authorization}
            \cup {loginCalls'[k].authorization : k \in 1..Len(loginCalls')} :
       RequestIssued(h)
         => /\ h = ExpectedHeader(localStorage)
            /\ authLast.op = "logout" => ~h.present]_vars

\* C13: as HeaderMatchesStorage, and a request issued right after a successful login()
\* carries the token of that login.
C13_BearerHeader ==
  [][\A h \in {sent'.authorization}
            \cup {loginCalls'[k].authorization : k \in 1..Len(loginCalls')} :
       RequestIssued(h)
         => /\ h = ExpectedHeader(localStorage)
            /\ authLast.op = "logout" => ~h.present
            /\ authLast.op = "loginOk"
                 => h = [present |-> TRUE, bearer |-> authLast.resp.token]]_vars

PendingTimers == {h \in 1..Len(timers) : timers[h].state = "pending"}

\* C14: the debounced ref starts equal to the source; it changes only when two units of
\* time (the delay) have passed since the last change of the source, and then to the
\* source's latest value; while the scope is active and no timer is pending it equals the
\* source; and when the source stops changing it ends equal to the source for good,
\* unless the scope is disposed first.
C14_DebouncedFollowsSource ==
  /\ debounced = source
  /\ [][debounced' # debounced => sinceChange = 2 /\ debounced' = source]_vars
  /\ [](scopeActive /\ PendingTimers = {} => debounced = source)
  /\ ([]<><<TRUE>>_source \/ <>[](~scopeActive \/ debounced = source))

\* The source changed twice and then rested; the second value has been published
C14_Witness ==
  /\ scopeActive
  /\ Len(timers) = 2
  /\ timers[1].state = "cleared"
  /\ timers[2].state = "fired"
  /\ debounced = source
  /\ debounced = timers[2].value

\* C15: at most one timer is pending; a change of the source while the scope is active
\* leaves exactly the timer it arms pending, for the new value; the debounced ref only
\* ever takes the value the source has, never one that was overwritten; once the scope
\* is disposed no timer is pending and the debounced ref does not change.
C15_SingleTimer ==
  [][/\ Cardinality({h \in 1..Len(timers') : timers'[h].state = "pending"}) <= 1
     /\ (source' # source /\ scopeActive)
          => /\ Len(timers') = Len(timers) + 1
             /\ {h \in 1..Len(timers') : timers'[h].state = "pending"} = {Len(timers')}
             /\ timers'[Len(timers')].value = source'
     /\ debounced' # debounced => debounced' = source
     /\ ~scopeActive' => {h \in 1..Len(timers') : timers'[h].state = "pending"} = {}
     /\ ~scopeActive => debounced' = debounced]_vars

\* A value of the source was overwritten before its timer ran, and the scope was
\* disposed with a timer pending: neither value has been published
C15_Witness ==
  /\ ~scopeActive
  /\ Len(timers) = 2
  /\ timers[1].state = "cleared"
  /\ timers[2].state = "cleared"
  /\ debounced # timers[1].value
  /\ debounced # timers[2].value
  /\ source = timers[2].value

\* The condition on the form's fields: a non-empty email that matches the pattern and
\* a non-empty password of at least 6 characters
ValidInput(e, p) == e # <<>> /\ isValidEmail(e) /\ p # <<>> /\ Len(p) >= 6

\* The step is a call of handleSubmit
HandleSubmitStep ==
  /\ formLast' \in {"ignored", "submitted"}
  /\ formLast' # formLast \/ LoginCallStarts

\* C16: a handleSubmit on fields that do not satisfy ValidInput issues no login request
\* and starts no navigation, so a login request is only ever issued on valid fields; and
\* the submit button is disabled whenever ValidInput is false or isLoading is true.
C16_InvalidFormBlocked ==
  [][/\ (HandleSubmitStep /\ ~ValidInput(email, password))
          => loginCalls' = loginCalls /\ nav' = nav /\ UNCHANGED authVars
     /\ LoginCallStarts => ValidInput(email, password)
     /\ (~ValidInput(email, password) \/ isLoading) => ButtonDisabled
     /\ (~ValidInput(email', password') \/ isLoading') => ButtonDisabled']_vars

\* handleSubmit has returned at once on a valid email with a password of 5 characters
C16_Witness ==
  /\ formLast = "ignored"
  /\ email = <<"a", "@", "b", ".", "c">>
  /\ Len(password) = 5
  /\ loginCalls = <<>>
  /\ ButtonDisabled

\* Where the form is to navigate after a login, by the current route's query
RedirectTarget ==
  IF /\ currentRoute.query.key = "redirect"
     /\ Len(currentRoute.query.val) > 0
     /\ currentRoute.query.val[1] \in {"/", "/dashboard", "/settings", "/login", "/missing"}
  THEN currentRoute.query.val
  ELSE <<"/dashboard">>

\* The step resumes a handleSubmit whose login() succeeded
FormLoginOkStep == formLast' = "loginOk" /\ LoginCallResumes

\* C17: when a login of the form succeeds, the form starts a navigation to the value of
\* the 'redirect' query parameter if that begins with "/", and to '/dashboard' otherwise.
C17_NavigatesToRedirect ==
  [][FormLoginOkStep
       => /\ navOrigin' = "form"
          /\ nav'.stage = "guard"
          /\ FullPath(nav'.to) = RedirectTarget]_vars

\* As C17, for a URL that holds the 'redirect' parameter at most once
NavigatesToSingleRedirect ==
  [][(FormLoginOkStep /\ \A n \in 1..Len(currentRoute.query.val) :
                           currentRoute.query.val[n] # "&")
       => /\ navOrigin' = "form"
          /\ nav'.stage = "guard"
          /\ FullPath(nav'.to) = RedirectTarget]_vars

\* C18: when a login of the form fails, the form's error becomes a message (if the form
\* is still the mounted one), no navigation is started, the current route stays and an
\* unauthenticated store stays unauthenticated; a handleSubmit that issues a login
\* request clears the error.
C18_FailureShown ==
  [][/\ (formLast' = "loginFailed" /\ LoginCallResumes)
          => /\ (\A k \in 1..Len(loginCalls) : loginCalls[k].caller = "form")
                  => formError' # "null"
             /\ nav' = nav
             /\ currentRoute' = currentRoute
             /\ token' = token
             /\ (token = <<>> \/ token = <<"">>) => (token' = <<>> \/ token' = <<"">>)
     /\ (HandleSubmitStep /\ LoginCallStarts) => formError' = "null"]_vars

\* A login of the form has failed: the form shows the message on the login route,
\* nobody is logged in and no navigation is pending
C18_Witness ==
  /\ formLast = "loginFailed"
  /\ formError = "Invalid email or password."
  /\ RouteName(currentRoute.path) = "login"
  /\ token = <<>>
  /\ nav.stage = "done"
  /\ navOrigin = "user"

C20_SidebarToggle ==
  /\ sidebarOpen = TRUE
  /\ [][(uiTrail' # uiTrail /\ uiTrail'[Len(uiTrail')].op = "toggleSidebar")
          => /\ sidebarOpen' = ~sidebarOpen
             /\ theme' = theme
             /\ (Len(uiTrail') = 2 /\ uiTrail'[1].op = "toggleSidebar")
                  => /\ sidebarOpen' = uiTrail'[1].found.sidebarOpen
                     /\ theme' = uiTrail'[1].found.theme]_vars

\* toggleSidebar() has run twice in a row on the dark theme with the sidebar closed
C20_Witness ==
  /\ Len(uiTrail) = 2
  /\ uiTrail[1].op = "toggleSidebar"
  /\ uiTrail[2].op = "toggleSidebar"
  /\ uiTrail[1].found = [sidebarOpen |-> FALSE, theme |-> "dark"]
  /\ ~sidebarOpen
  /\ theme = "dark"

\* C21: theme starts 'light'; a toggleTheme() turns 'light' into 'dark' and 'dark' into
\* 'light' and leaves sidebarOpen as it was; theme is always one of the two, and
\* isDarkMode is true exactly when theme is 'dark'.
C21_ThemeToggle ==
  /\ theme = "light"
  /\ [][(uiTrail' # uiTrail /\ uiTrail'[Len(uiTrail')].op = "toggleTheme")
          => /\ theme = "light" => theme' = "dark"
             /\ theme = "dark" => theme' = "light"
             /\ sidebarOpen' = sidebarOpen]_vars
  /\ [](theme \in {"light", "dark"} /\ (isDarkMode <=> theme = "dark"))

\* toggleTheme() has run twice in a row with the sidebar closed: the theme is light again
C21_Witness ==
  /\ Len(uiTrail) = 2
  /\ uiTrail[1].op = "toggleTheme"
  /\ uiTrail[2].op = "toggleTheme"
  /\ uiTrail[2].found = [sidebarOpen |-> FALSE, theme |-> "dark"]
  /\ theme = "light"
  /\ ~isDarkMode
  /\ ~sidebarOpen

\* The step is a keydown event on the document
KeyDownStep == modalLast' # modalLast /\ modalLast'.event \in {"Escape", "Tab", "Enter"}

\* C22: the keydown listener is registered exactly while the modal is mounted; an
\* Escape keydown while it is mounted emits one 'close', prevents nothing and leaves
\* focus where it was; a keydown while it is not mounted emits nothing.
C22_EscapeCloses ==
  [][/\ listening' <=> modalMounted'
     /\ (KeyDownStep /\ modalMounted /\ modalLast'.event = "Escape")
          => /\ modalLast'.emits = 1
             /\ ~modalLast'.prevented
             /\ activeElement' = activeElement
     /\ (KeyDownStep /\ ~modalMounted) => modalLast'.emits = 0]_vars

\* Escape was pressed with focus on the second button of a mounted modal
C22_Witness ==
  /\ modalMounted
  /\ modalLast.event = "Escape"
  /\ modalLast.emits = 1
  /\ activeElement = 3

\* The elements of the mounted modal that can take focus: the close button and the
\* enabled buttons of the slots
ModalFocusable == {1} \cup {k + 1 : k \in {j \in 1..Len(slotButtons) : slotButtons[j]}}

\* The step is a Tab or Shift+Tab press with focus inside the mounted modal
TabInsideStep ==
  /\ KeyDownStep
  /\ modalLast'.event = "Tab"
  /\ modalMounted
  /\ activeElement \in ModalFocusable

\* C23: mounting puts focus on the modal's first focusable element; with focus inside
\* the modal, Tab on the last focusable element moves focus to the first, Shift+Tab on
\* the first moves it to the last, any other Tab press is not prevented, and focus stays
\* on the modal's focusable elements.
C23_FocusTrap ==
  [][/\ (modalLast' # modalLast /\ modalLast'.event = "mount") => activeElement' = 1
     /\ TabInsideStep
          => /\ activeElement' \in ModalFocusable
             /\ (~modalLast'.shiftKey /\ \A k \in ModalFocusable : k <= activeElement)
                  => activeElement' = 1
             /\ (modalLast'.shiftKey /\ activeElement = 1)
                  => \A k \in ModalFocusable : k <= activeElement'
             /\ ((modalLast'.shiftKey /\ activeElement # 1)
                   \/ (~modalLast'.shiftKey /\ \E k \in ModalFocusable : k > activeElement))
                  => ~modalLast'.prevented]_vars

\* As C23, for a modal none of whose buttons is disabled
FocusTrapAllEnabled ==
  [][(\A j \in 1..Len(slotButtons) : slotButtons[j])
       => /\ (modalLast' # modalLast /\ modalLast'.event = "mount") => activeElement' = 1
          /\ TabInsideStep
               => /\ activeElement' \in ModalFocusable
                  /\ (~modalLast'.shiftKey /\ \A k \in ModalFocusable : k <= activeElement)
                       => activeElement' = 1
                  /\ (modalLast'.shiftKey /\ activeElement = 1)
                       => \A k \in ModalFocusable : k <= activeElement'
                  /\ ((modalLast'.shiftKey /\ activeElement # 1)
                        \/ (~modalLast'.shiftKey
                              /\ \E k \in ModalFocusable : k > activeElement))
                       => ~modalLast'.prevented]_vars

\* The lines of the cart with the given id
LinesWith(its, id) == {k \in 1..Len(its) : its[k].id = id}

\* C24: an addItem(item) on a cart with no line of item.id appends one line of that id
\* with quantity 1 after the lines there were, which stay as they are; on a cart with
\* such a line it raises that line's quantity by 1 and changes nothing else.
C24_AddItem ==
  [][(cartLast'.op = "addItem" /\ items' # items)
       => IF LinesWith(items, cartLast'.id) = {}
          THEN /\ Len(items') = Len(items) + 1
               /\ \A k \in 1..Len(items) : items'[k] = items[k]
               /\ items'[Len(items')].id = cartLast'.id
               /\ items'[Len(items')].quantity = 1
          ELSE /\ Len(items') = Len(items)
               /\ \A k \in 1..Len(items) :
                    IF items[k].id = cartLast'.id
                    THEN /\ items'[k].quantity = items[k].quantity + 1
                         /\ items'[k].id = items[k].id
                         /\ items'[k].name = items[k].name
                         /\ items'[k].price = items[k].price
                    ELSE items'[k] = items[k]]_vars

\* The second of two lines was added again: it has quantity 2, the first still 1
C24_Witness ==
  /\ Len(items) = 2
  /\ cartLast = [op |-> "addItem", id |-> items[2].id]
  /\ items[2].quantity = 2
  /\ items[1].quantity = 1

\* C25: removeItem(id) leaves exactly the lines of another id, in their order, so it
\* drops the line of that id whatever its quantity and changes nothing when there is
\* none; clearCart() leaves no line; the cart starts empty, and an empty cart has
\* totalItems 0 and totalPrice 0.
C25_RemoveAndClear ==
  /\ items = <<>>
  /\ [][/\ cartLast'.op = "removeItem"
             => /\ LinesWith(items', cartLast'.id) = {}
                /\ LinesWith(items, cartLast'.id) = {} => items' = items
                /\ Len(items') = Len(items) - Cardinality(LinesWith(items, cartLast'.id))
                /\ \A k \in 1..Len(items) :
                     items[k].id # cartLast'.id
                       => items'[k - Cardinality({j \in LinesWith(items, cartLast'.id) :
                                                    j < k})] = items[k]
        /\ cartLast'.op = "clearCart" => items' = <<>>]_vars
  /\ [](items = <<>> => totalItems = 0 /\ totalPrice = 0)

\* removeItem ran last, on an id no line has now; two lines are left, one of them
\* of quantity 2 or more
C25_Witness ==
  /\ cartLast.op = "removeItem"
  /\ Len(items) = 2
  /\ cartLast.id \notin {items[1].id, items[2].id}
  /\ cartLast.id # ""
  /\ totalItems >= 3

C27_LogoutSticks ==
  [][(authLast.op = "logout" /\ ~LoginCallStarts)
       => /\ token' = <<>>
          /\ user' = "null"
          /\ localStorage' = <<>>]_vars

\* C28: a call of execute() that returns after a later call has started writes neither
\* data nor error; and when every call has returned, error is what the call started
\* last ended with: null after a success or an abort, its exception otherwise.
C28_LatestCallWins ==
  [][/\ \A i \in 1..Len(calls) :
          (calls[i].stage # "done" /\ calls'[i].stage = "done" /\ i < Len(calls))
            => data' = data /\ error' = error
     /\ (calls' # <<>> /\ \A i \in 1..Len(calls') : calls'[i].stage = "done")
          => error' = IF calls'[Len(calls')].settled \in {"ok", "AbortError"}
                      THEN "null"
                      ELSE calls'[Len(calls')].settled]_vars

\* C29: while the store's authentication does not change, a navigation is redirected at
\* most once; the route it is allowed to, and the current route, is neither 'dashboard'
\* nor 'settings' when the store is unauthenticated and not 'login' when it is
\* authenticated; and every navigation is confirmed unless a new one replaces it.
C29_RedirectsTerminate ==
  /\ [](nav.redirects <= 1)
  /\ [](\A name \in {RouteName(currentRoute.path)}
               \cup (IF nav.stage = "guard" THEN {} ELSE {RouteName(nav.to.path)}) :
          /\ (token = <<>> \/ token = <<"">>) => name \notin {"dashboard", "settings"}
          /\ (token # <<>> /\ token # <<"">>) => name # "login")
  /\ ([]<>(nav.stage = "done") \/ []<><<nav'.stage = "guard" /\ nav'.redirects = 0>>_nav)

\* An authenticated user opened the login page: one redirect, and the dashboard is shown
C29_Witness ==
  /\ token = <<"h", "alice64", "s">>
  /\ nav.stage = "done"
  /\ nav.redirects = 1
  /\ RouteName(nav.guarded.path) = "dashboard"
  /\ RouteName(currentRoute.path) = "dashboard"

\* The login page is shown with the 'redirect' parameter the guard gives a navigation to
\* a protected route: the fullPath of that navigation
RedirectedFromProtected ==
  /\ RouteName(currentRoute.path) = "login"
  /\ currentRoute.query.key = "redirect"
  /\ Len(currentRoute.query.val) > 0
  /\ currentRoute.query.val[1] \in {"/dashboard", "/settings"}
  /\ \A n \in 1..Len(currentRoute.query.val) : currentRoute.query.val[n] # "&"

\* The navigation the form started on that page is pending
RoundTripPending == navOrigin = "form" /\ RedirectedFromProtected /\ nav.stage # "done"

\* C30: on the login page a guard redirect from a protected route P leads to, a login of
\* the form that succeeds starts a navigation to P; that navigation is not redirected;
\* when it is confirmed the current route is P (not 'login', and '/dashboard' only if P
\* is); and it is confirmed unless another navigation replaces it.
C30_RedirectRoundTrip ==
  /\ [][/\ (FormLoginOkStep /\ RedirectedFromProtected)
             => /\ navOrigin' = "form"
                /\ nav'.stage = "guard"
                /\ FullPath(nav'.to) = currentRoute.query.val
        /\ (RoundTripPending /\ nav'.stage = "done")
             => /\ FullPath(currentRoute') = currentRoute.query.val
                /\ RouteName(currentRoute'.path) # "login"]_vars
  /\ [](RoundTripPending => nav.redirects = 0)
  /\ ([]<>(~RoundTripPending) \/ []<><<nav'.stage = "guard" /\ nav'.redirects = 0>>_nav)

\* As C30, for the navigations on which the guard read an authenticated store
RoundTripWhenAuthenticated ==
  /\ [][/\ (FormLoginOkStep /\ RedirectedFromProtected)
             => /\ navOrigin' = "form"
                /\ nav'.stage = "guard"
                /\ FullPath(nav'.to) = currentRoute.query.val
        /\ (RoundTripPending /\ nav'.stage = "done" /\ nav.authAtGuard)
             => /\ FullPath(currentRoute') = currentRoute.query.val
                /\ RouteName(currentRoute'.path) # "login"]_vars
  /\ [](RoundTripPending /\ nav.stage = "load" /\ nav.authAtGuard => nav.redirects = 0)
  /\ ([]<>(~RoundTripPending) \/ []<><<nav'.stage = "guard" /\ nav'.redirects = 0>>_nav)

\* The round trip made: the app opened at '/settings?tab=1', the form logged alice in
\* and the page shown is '/settings?tab=1'
RoundTripMade ==
  /\ navOrigin = "form"
  /\ nav.stage = "done"
  /\ nav.redirects = 0
  /\ FullPath(currentRoute) = <<"/settings", "?", "tab", "=", "1">>
  /\ token = <<"h", "alice64", "s">>
  /\ formLast = "mount"

====
